---- MODULE Spec2Model ----
(***************************************************************************)
(* Model of src/src/game.js: the level scene of the platformer.            *)
(*                                                                         *)
(* The two data directories the program reads (data/scenes/<index>.json    *)
(* and data/settings/inputs.json) are the environment: they are chosen in  *)
(* the initial state and never change.  The engine handles (images,        *)
(* rectangles, physics bodies) are modelled as the records of the fields   *)
(* the source reads and writes: alpha, active, body.enable, levelIndex,    *)
(* id, and whether destroy() was called.                                   *)
(***************************************************************************)
EXTENDS Integers, Sequences, FiniteSets, TLC

VARIABLES
    scenes,             \* data/scenes/<index>.json : index -> description
    inputsTable,        \* reverse lookup table: physical code -> logical id
    levelIndex,         \* module-level `let levelIndex`
    status,             \* lifecycle position of the scene
    description,        \* this.description
    player,             \* this.player
    objs,               \* the game objects made by create(), by handle
    groups,             \* blocks, doors, ghosts, keys of create()
    objectTable,        \* objectTable of create()
    interactionsTable,  \* interactionsTable of create()
    loadedIndex,        \* the index preload() read the description for
    doorIndex,          \* levelIndex carried by the door overlapped last
    dispatched,         \* per key: how often its dispatch destroyed the key
    restartCause,       \* what called scene.restart() last
    threw               \* whether that handler ended in an uncaught error

vars == <<scenes, inputsTable, levelIndex, status, description, player, objs,
          groups, objectTable, interactionsTable, loadedIndex, doorIndex,
          dispatched, restartCause, threw>>

\* ---------------------------------------------------------------- bounds
MaxElements == 3
MaxRules == 2
MaxDispatch == 2

\* ------------------------------------------------------ JavaScript values
\* `undefined`; used as a property key it is the string "undefined".
Undefined == "undefined"

\* Names every `{}` inherits from Object.prototype: reading table[name]
\* yields a function, not undefined, when the table has no own entry.
ObjectPrototypeNames == {"toString", "constructor", "valueOf", "hasOwnProperty"}

\* table[k] has an own entry.
HasOwn(table, k) == k \in DOMAIN table

\* table[k] evaluates to an inherited function (none of whose properties
\* target, action, obj, desc is defined).
IsInherited(table, k) == ~HasOwn(table, k) /\ k \in ObjectPrototypeNames

\* table[k] evaluates to undefined.
IsUndefined(table, k) == ~HasOwn(table, k) /\ k \notin ObjectPrototypeNames

\* table[k] = v
Put(table, k, v) == (k :> v) @@ table

\* Alpha values are the dyadic rationals n / 2^e (halving is exact in IEEE
\* arithmetic), kept in normal form: e = 0 or n odd.  e = -1 is undefined,
\* e = -2 is NaN.
Num(n, e) == [n |-> n, e |-> e]
AlphaUndefined == [n |-> 0, e |-> 0 - 1]
AlphaNaN == [n |-> 0, e |-> 0 - 2]
IsNumber(a) == a.e >= 0

RECURSIVE Pow2(_)
Pow2(k) == IF k <= 0 THEN 1 ELSE 2 * Pow2(k - 1)

\* a < b as JavaScript evaluates it: false when either side is not a number.
Less(a, b) == /\ IsNumber(a)
              /\ IsNumber(b)
              /\ a.n * Pow2(b.e) < b.n * Pow2(a.e)

\* a / 2
Half(a) == IF ~IsNumber(a) THEN AlphaNaN
           ELSE IF a.n = 0 THEN a
           ELSE IF a.n % 2 = 0 THEN Num(a.n \div 2, a.e)
           ELSE Num(a.n, a.e + 1)

\* const clamp = (n, min, max) => n < min ? min : n > max ? max : n
clamp(n, min, max) == IF Less(n, min) THEN min
                      ELSE IF Less(max, n) THEN max
                      ELSE n

\* const min = (a, b) => b < a ? b : a, on coordinates (integers).
min(a, b) == IF b < a THEN b ELSE a

\* const max = (a, b) => b > a ? b : a
max(a, b) == IF b > a THEN b ELSE a

\* NormalisedRect with w and h the signed differences x2 - x1, y2 - y1.
NormalisedRectSigned(c) ==
    [x |-> min(c.x1, c.x2), y |-> min(c.y1, c.y2),
     w |-> c.x2 - c.x1, h |-> c.y2 - c.y1]

\* The local `rect` of create(), from o.coordinates = {x1, y1, x2, y2}:
\* xmin, ymin, xmax, ymax, then {x: xmin, y: ymin, w: xmax - xmin,
\* h: ymax - ymin}.
NormalisedRect(c) ==
    LET xmin == min(c.x1, c.x2)
        ymin == min(c.y1, c.y2)
        xmax == max(c.x1, c.x2)
        ymax == max(c.y1, c.y2)
    IN  [x |-> xmin, y |-> ymin, w |-> xmax - xmin, h |-> ymax - ymin]

\* ------------------------------------------------------------ the player
moveSpeed == 100
jumpForce == 150

NullPlayer == [isNull |-> TRUE,
               sprite |-> [exists |-> FALSE, velocityX |-> <<0, 1>>, velocityY |-> 0],
               moveUp |-> FALSE, moveRight |-> FALSE,
               moveDown |-> FALSE, moveLeft |-> FALSE]

\* new Player(sprite)
NewPlayer == [isNull |-> FALSE,
              sprite |-> [exists |-> TRUE, velocityX |-> <<0, 1>>, velocityY |-> 0],
              moveUp |-> FALSE, moveRight |-> FALSE,
              moveDown |-> FALSE, moveLeft |-> FALSE]

\* --------------------------------------------------------------- create()
EmptyGroups == [blocks |-> {}, doors |-> {}, ghosts |-> {}, keys |-> {}]

\* The locals of create() while it runs, with this.player.
NewLevel(p) == [player |-> p, objs |-> <<>>, groups |-> EmptyGroups,
                objectTable |-> <<>>, interactionsTable |-> <<>>,
                threw |-> FALSE]

\* A sprite is created with the engine's default alpha, 1.  The field
\* `created` records the alpha an object was created with; no code reads it.
\* The image is placed at (x, y); its size is the texture's and is not
\* modelled.
NewSprite(o) == [kind |-> "sprite", id |-> Undefined, alpha |-> Num(1, 0),
                 created |-> Num(1, 0), active |-> TRUE, bodyEnable |-> TRUE,
                 exists |-> TRUE, levelIndex |-> Undefined,
                 rect |-> [x |-> o.coordinates.x1, y |-> o.coordinates.y1,
                           w |-> 0, h |-> 0]]

\* this.add.rectangle(..., clamp(o.color.alpha, 0, 1)), of the size and at
\* the place of the local `rect`.
NewRect(o) == [kind |-> "rect", id |-> Undefined,
               alpha |-> clamp(o.alpha, Num(0, 0), Num(1, 0)),
               created |-> clamp(o.alpha, Num(0, 0), Num(1, 0)),
               active |-> TRUE, bodyEnable |-> TRUE,
               exists |-> TRUE, levelIndex |-> Undefined,
               rect |-> NormalisedRect(o.coordinates)]

\* switch (o.function) of a sprite
SpriteGroup(o) == IF o.function = "key" THEN "keys" ELSE "ghosts"

\* RectGroup without the case 'door'.
RectGroupNoDoor(o) == IF o.function = "wall" THEN "blocks" ELSE "ghosts"

\* switch (o.function) of a rect
RectGroup(o) == CASE o.function = "wall" -> "blocks"
                  [] o.function = "door" -> "doors"
                  [] OTHER -> "ghosts"

\* group.add(h)
AddTo(gs, g, h) == [gs EXCEPT ![g] = @ \cup {h}]

\* Register, keeping the entry an id already has.
RegisterFirstWins(st, o, h) ==
    IF o.id = Undefined \/ HasOwn(st.objectTable, o.id) THEN st
    ELSE [st EXCEPT !.objectTable = Put(@, o.id, [desc |-> o, obj |-> h]),
                    !.objs[h].id = o.id]

\* if (o.id) { objectTable[o.id] = {desc: o, obj: s}; s.id = o.id; }
Register(st, o, h) ==
    IF o.id = Undefined THEN st
    ELSE [st EXCEPT !.objectTable = Put(@, o.id, [desc |-> o, obj |-> h]),
                    !.objs[h].id = o.id]

\* One iteration of this.description.elements.forEach; h is the handle of
\* the object it makes.
ElementStep(st, o, h) ==
    CASE o.type = "player" ->
           [st EXCEPT !.player = NewPlayer]
      [] o.type = "sprite" ->
           Register([st EXCEPT !.objs = Put(@, h, NewSprite(o)),
                               !.groups = AddTo(@, SpriteGroup(o), h)], o, h)
      [] o.type = "rect" ->
           Register([st EXCEPT
                       !.objs = Put(@, h,
                           IF o.function = "door"
                           THEN [NewRect(o) EXCEPT !.levelIndex = o.levelIndex]
                           ELSE NewRect(o)),
                       !.groups = AddTo(@, RectGroup(o), h)], o, h)
      [] OTHER -> st

RECURSIVE Elements(_, _, _)
Elements(st, elements, i) ==
    IF i > Len(elements) THEN st
    ELSE Elements(ElementStep(st, elements[i], i), elements, i + 1)

\* InteractionStep that registers the rule and leaves the target of an
\* "enable" rule as it was created.
InteractionStepNoLock(st, o) ==
    LET reg == [st EXCEPT !.interactionsTable =
                    Put(@, o.trigger, [target |-> o.target, action |-> o.action])]
    IN  IF o.action = "enable" /\ ~HasOwn(reg.objectTable, o.target)
        THEN [reg EXCEPT !.threw = TRUE]
        ELSE reg

\* One iteration of this.description.interactions.forEach.  With action
\* "enable", target.obj.alpha throws when objectTable[o.target] has no
\* own entry (target is undefined, or an inherited function without obj).
InteractionStep(st, o) ==
    LET reg == [st EXCEPT !.interactionsTable =
                    Put(@, o.trigger, [target |-> o.target, action |-> o.action])]
    IN  IF o.action = "enable"
        THEN IF HasOwn(reg.objectTable, o.target)
             THEN LET h == reg.objectTable[o.target].obj
                  IN  [reg EXCEPT !.objs[h].alpha = Half(@),
                                  !.objs[h].active = FALSE,
                                  !.objs[h].bodyEnable = FALSE]
             ELSE [reg EXCEPT !.threw = TRUE]
        ELSE reg

RECURSIVE Interactions(_, _, _)
Interactions(st, rules, j) ==
    IF j > Len(rules) \/ st.threw THEN st
    ELSE Interactions(InteractionStep(st, rules[j]), rules, j + 1)

\* this.physics.add.collider(this.player.sprite, blocks) and the three
\* registrations after it: this.player.sprite throws when this.player is null.
Colliders(st) == IF st.threw \/ ~st.player.isNull THEN st
                 ELSE [st EXCEPT !.threw = TRUE]

\* ghosts.children.entries.forEach(o => o.body.enable = false)
DisableGhosts(st) ==
    IF st.threw THEN st
    ELSE [st EXCEPT !.objs = [h \in DOMAIN st.objs |->
                        IF h \in st.groups.ghosts
                        THEN [st.objs[h] EXCEPT !.bodyEnable = FALSE]
                        ELSE st.objs[h]]]

\* The whole of create() on description d, this.player being p before.
CreateLevel(d, p) ==
    DisableGhosts(Colliders(
        Interactions(Elements(NewLevel(p), d.elements, 1), d.interactions, 1)))
\* ------------------------------------------------ the overlap callbacks
\* DestroyKey, the key left in place.
DestroyKeyNot(os, h) == os

\* key.destroy()
DestroyKey(os, h) == [os EXCEPT ![h].exists = FALSE]

\* case "enable" of the player/keys callback, t being target.obj.  The
\* body of a destroyed object is gone: target.obj.body.enable throws.
EnableTarget(os, desc, t) ==
    IF os[t].exists
    THEN [objs |-> [os EXCEPT ![t].alpha = desc.alpha,
                              ![t].active = TRUE,
                              ![t].bodyEnable = TRUE],
          threw |-> FALSE]
    ELSE [objs |-> [os EXCEPT ![t].alpha = desc.alpha, ![t].active = TRUE],
          threw |-> TRUE]

\* case "disable" of the player/keys callback
DisableTarget(os, t) ==
    IF os[t].exists
    THEN [objs |-> [os EXCEPT ![t].alpha = Half(@),
                              ![t].active = FALSE,
                              ![t].bodyEnable = FALSE],
          threw |-> FALSE]
    ELSE [objs |-> [os EXCEPT ![t].alpha = Half(@), ![t].active = FALSE],
          threw |-> TRUE]

\* ApplyAction with the default falling into case "disable", as the
\* switch of create() has it.
ApplyActionDefaultDisables(os, ot, interaction) ==
    CASE interaction.action = "enable" ->
           IF HasOwn(ot, interaction.target)
           THEN EnableTarget(os, ot[interaction.target].desc, ot[interaction.target].obj)
           ELSE [objs |-> os, threw |-> TRUE]
      [] OTHER ->
           IF HasOwn(ot, interaction.target)
           THEN DisableTarget(os, ot[interaction.target].obj)
           ELSE [objs |-> os, threw |-> TRUE]

\* switch (interaction.action), after the key is destroyed
ApplyAction(os, ot, interaction) ==
    CASE interaction.action = "enable" ->
           IF HasOwn(ot, interaction.target)
           THEN EnableTarget(os, ot[interaction.target].desc, ot[interaction.target].obj)
           ELSE [objs |-> os, threw |-> TRUE]
      [] interaction.action = "disable" ->
           IF HasOwn(ot, interaction.target)
           THEN DisableTarget(os, ot[interaction.target].obj)
           ELSE [objs |-> os, threw |-> TRUE]
      [] OTHER -> [objs |-> os, threw |-> FALSE]

\* The player/keys overlap callback for key h.  `destroyed` tells whether
\* key.destroy() was reached.
\*   interaction undefined: interaction.target throws, nothing is done;
\*   interaction an inherited function: its target and action are
\*   undefined, the key is destroyed, the switch takes the default.
KeyCallback(os, ot, it, h) ==
    IF IsUndefined(it, os[h].id)
    THEN [objs |-> os, threw |-> TRUE, destroyed |-> FALSE]
    ELSE IF IsInherited(it, os[h].id)
    THEN [objs |-> DestroyKey(os, h), threw |-> FALSE, destroyed |-> TRUE]
    ELSE LET r == ApplyAction(DestroyKey(os, h), ot, it[os[h].id])
         IN  [objs |-> r.objs, threw |-> r.threw, destroyed |-> TRUE]

\* The engine calls an overlap callback for object h only while the
\* player's sprite and h exist and the body of h is enabled.
Overlapping(h) == /\ status = "Active"
                  /\ ~player.isNull
                  /\ player.sprite.exists
                  /\ h \in DOMAIN objs
                  /\ objs[h].exists
                  /\ objs[h].bodyEnable

\* this.scene.restart(): the scene is shut down (every game object is
\* destroyed, the locals of create() are unreachable) and started again.
\* this.player and this.description are fields of the scene and stay.
StalePlayer(p) == IF p.isNull THEN p ELSE [p EXCEPT !.sprite.exists = FALSE]

Restart(cause) ==
    /\ status' = "Pending"
    /\ restartCause' = cause
    /\ player' = StalePlayer(player)
    /\ objs' = <<>>
    /\ groups' = EmptyGroups
    /\ objectTable' = <<>>
    /\ interactionsTable' = <<>>
    /\ dispatched' = <<>>

\* DoorLevelIndex, the index left as it was.
DoorLevelIndexKept(h) == levelIndex

\* levelIndex = door.levelIndex
DoorLevelIndex(h) == objs[h].levelIndex

\* (player, door) => { levelIndex = door.levelIndex; this.scene.restart(); }
DoorOverlap(h) ==
    /\ Overlapping(h)
    /\ h \in groups.doors
    /\ levelIndex' = DoorLevelIndex(h)
    /\ doorIndex' = objs[h].levelIndex
    /\ Restart("door")
    /\ threw' = FALSE
    /\ UNCHANGED <<scenes, inputsTable, description, loadedIndex>>

\* (player, key) => { ... }
KeyOverlap(h) ==
    /\ Overlapping(h)
    /\ h \in groups.keys
    /\ dispatched[h] < MaxDispatch
    /\ LET r == KeyCallback(objs, objectTable, interactionsTable, h)
       IN  /\ objs' = r.objs
           /\ threw' = r.threw
           /\ dispatched' = [dispatched EXCEPT ![h] = IF r.destroyed THEN @ + 1 ELSE @]
    /\ UNCHANGED <<scenes, inputsTable, levelIndex, status, description, player,
                   groups, objectTable, interactionsTable, loadedIndex, doorIndex,
                   restartCause>>

\* ------------------------------------------------------ preload, create
NoDescription == [isNull |-> TRUE, elements |-> <<>>, interactions |-> <<>>]

\* preload(): require() of a missing file throws.
Preload ==
    /\ status = "Pending"
    /\ loadedIndex' = levelIndex
    /\ IF levelIndex \in DOMAIN scenes
       THEN /\ description' = scenes[levelIndex]
            /\ status' = "Preloaded"
            /\ threw' = FALSE
       ELSE /\ status' = "PreloadFailed"
            /\ threw' = TRUE
            /\ UNCHANGED description
    /\ UNCHANGED <<scenes, inputsTable, levelIndex, player, objs, groups,
                   objectTable, interactionsTable, doorIndex, dispatched,
                   restartCause>>

\* create(): when it throws, this.player keeps what the element loop
\* assigned, and nothing of the level is registered with the engine.
Create ==
    /\ status = "Preloaded"
    /\ LET st == CreateLevel(description, player)
       IN  /\ player' = st.player
           /\ threw' = st.threw
           /\ IF st.threw
              THEN /\ status' = "CreateFailed"
                   /\ objs' = <<>>
                   /\ groups' = EmptyGroups
                   /\ objectTable' = <<>>
                   /\ interactionsTable' = <<>>
                   /\ dispatched' = <<>>
              ELSE /\ status' = "Active"
                   /\ objs' = st.objs
                   /\ groups' = st.groups
                   /\ objectTable' = st.objectTable
                   /\ interactionsTable' = st.interactionsTable
                   /\ dispatched' = [h \in st.groups.keys |-> 0]
    /\ UNCHANGED <<scenes, inputsTable, levelIndex, description, loadedIndex,
                   doorIndex, restartCause>>

\* --------------------------------------------------------- update, input
\* Player.move(): the direction, then the velocities.  velocityX is kept
\* as <<direction.x * length * moveSpeed, length^2>>.
DirectionX(p) == (IF p.moveRight THEN 1 ELSE 0) - (IF p.moveLeft THEN 1 ELSE 0)
DirectionY(p) == (IF p.moveDown THEN 1 ELSE 0) - (IF p.moveUp THEN 1 ELSE 0)

\* LengthSquared without `if (length === 0) length = 1`.
LengthSquaredUnguarded(p) ==
    DirectionX(p) * DirectionX(p) + DirectionY(p) * DirectionY(p)

\* length * length, after `if (length === 0) length = 1`.
LengthSquared(p) ==
    LET l == DirectionX(p) * DirectionX(p) + DirectionY(p) * DirectionY(p)
    IN  IF l = 0 THEN 1 ELSE l

\* direction after `direction.x /= length; direction.y /= length`: the
\* component <<n, l>> is n / sqrt(l) in exact arithmetic, and 0 / sqrt(0),
\* that is NaN, when l = 0.
Direction(p) == [x |-> <<DirectionX(p), LengthSquared(p)>>,
                 y |-> <<DirectionY(p), LengthSquared(p)>>]

\* move with the jump given whatever the body touches.
moveJumpsInAir(p, touchingDown) ==
    IF ~p.sprite.exists THEN p
    ELSE [p EXCEPT !.sprite.velocityX = <<Direction(p).x[1] * moveSpeed, Direction(p).x[2]>>,
                   !.sprite.velocityY = IF DirectionY(p) < 0
                                        THEN 0 - jumpForce ELSE @]

\* The try block of move(): the calls on a sprite whose body is torn down
\* throw before anything is set.
move(p, touchingDown) ==
    IF ~p.sprite.exists THEN p
    ELSE [p EXCEPT !.sprite.velocityX = <<Direction(p).x[1] * moveSpeed, Direction(p).x[2]>>,
                   !.sprite.velocityY = IF DirectionY(p) < 0 /\ touchingDown
                                        THEN 0 - jumpForce ELSE @]

\* MoveThrows without the try/catch around the calls on the sprite.
MoveThrowsUncaught(p) == ~p.sprite.exists

\* try { ... } catch (e) {}: no error of the sprite calls leaves move().
MoveThrows(p) == FALSE

\* update(time, delta), called by the engine once create() has returned.
Update(touchingDown) ==
    /\ status = "Active"
    /\ player' = move(player, touchingDown)
    /\ threw' = MoveThrows(player)
    /\ UNCHANGED <<scenes, inputsTable, levelIndex, status, description, objs,
                   groups, objectTable, interactionsTable, loadedIndex,
                   doorIndex, dispatched, restartCause>>

\* The reverse lookup table built from inputs.json.
RECURSIVE KeysOf(_, _, _, _)
KeysOf(table, id, keys, j) ==
    IF j > Len(keys) THEN table
    ELSE KeysOf(Put(table, keys[j], id), id, keys, j + 1)

RECURSIVE BuildInputsTable(_, _, _)
BuildInputsTable(table, settings, i) ==
    IF i > Len(settings) THEN table
    ELSE BuildInputsTable(KeysOf(table, settings[i].id, settings[i].keys, 1),
                          settings, i + 1)

\* SetFlag with the case 'down' of the switch in place.
SetFlagWithDown(p, input, keyDown) ==
    CASE input = "up" -> [p EXCEPT !.moveUp = keyDown]
      [] input = "right" -> [p EXCEPT !.moveRight = keyDown]
      [] input = "down" -> [p EXCEPT !.moveDown = keyDown]
      [] input = "left" -> [p EXCEPT !.moveLeft = keyDown]
      [] OTHER -> p

\* The flag assignments of inputHandler: this.player.moveUp = keyDown, ...
\* The case 'down' is commented out in the source.
SetFlag(p, input, keyDown) ==
    CASE input = "up" -> [p EXCEPT !.moveUp = keyDown]
      [] input = "right" -> [p EXCEPT !.moveRight = keyDown]
      [] input = "left" -> [p EXCEPT !.moveLeft = keyDown]
      [] OTHER -> p

\* The switch has a case for input that assigns a flag of this.player.
AssignsFlag(input) == SetFlag(NewPlayer, input, TRUE) # NewPlayer

\* ReloadLevelIndex, the index set back to the first level.
ReloadLevelIndexReset == "1"

\* case 'reloadLevel' restarts the scene and assigns nothing to levelIndex.
ReloadLevelIndex == levelIndex

\* inputHandler(sceneObject, keyboardEvent, keyDown); the listeners are
\* bound by the first statements of create().
InputHandler(code, keyDown) ==
    /\ status \in {"Active", "CreateFailed"}
    /\ LET input == IF code \in DOMAIN inputsTable THEN inputsTable[code] ELSE Undefined
       IN  CASE input = "quit" /\ keyDown ->
                  /\ status' = "Closed"
                  /\ threw' = FALSE
                  /\ UNCHANGED <<levelIndex, player, objs, groups, objectTable,
                                 interactionsTable, dispatched, restartCause>>
             [] input = "reloadLevel" /\ keyDown ->
                  /\ Restart("reload")
                  /\ threw' = FALSE
                  /\ levelIndex' = ReloadLevelIndex
             [] AssignsFlag(input) ->
                  /\ threw' = player.isNull
                  /\ player' = IF player.isNull THEN player
                               ELSE SetFlag(player, input, keyDown)
                  /\ UNCHANGED <<levelIndex, status, objs, groups, objectTable,
                                 interactionsTable, dispatched, restartCause>>
             [] OTHER ->
                  /\ threw' = FALSE
                  /\ UNCHANGED <<levelIndex, status, player, objs, groups,
                                 objectTable, interactionsTable, dispatched,
                                 restartCause>>
    /\ UNCHANGED <<scenes, inputsTable, description, loadedIndex, doorIndex>>
\* ------------------------------------------------- the level descriptions
\* o.coordinates: {x, y} of a player or a sprite (kept as x1, y1), the two
\* corners {x1, y1, x2, y2} of a rect.
Corners(x1, y1, x2, y2) == [x1 |-> x1, y1 |-> y1, x2 |-> x2, y2 |-> y2]
Origin == Corners(0, 0, 0, 0)

\* Element e placed at coordinates c.
At(e, c) == [e EXCEPT !.coordinates = c]

PlayerElement(id) ==
    [type |-> "player", function |-> Undefined, id |-> id,
     alpha |-> AlphaUndefined, levelIndex |-> Undefined, coordinates |-> Origin]

\* A sprite's color has no alpha.
SpriteElement(function, id) ==
    [type |-> "sprite", function |-> function, id |-> id,
     alpha |-> AlphaUndefined, levelIndex |-> Undefined, coordinates |-> Origin]

RectElement(function, id, alpha, index) ==
    [type |-> "rect", function |-> function, id |-> id,
     alpha |-> alpha, levelIndex |-> index, coordinates |-> Origin]

\* An element of a type create() does not know.
OtherElement(id) ==
    [type |-> "text", function |-> Undefined, id |-> id,
     alpha |-> AlphaUndefined, levelIndex |-> Undefined, coordinates |-> Origin]

Rule(trigger, target, action) ==
    [trigger |-> trigger, target |-> target, action |-> action]

SeqsUpTo(S, n) == UNION {[1..k -> S] : k \in 0..n}

\* Every description with at most MaxElements elements of E after the
\* elements of one of the prefixes, and at most MaxRules rules of R.
Level(es, rs) == [isNull |-> FALSE, elements |-> es, interactions |-> rs]

Descriptions(prefixes, E, R) ==
    {Level(p \o es, rs) :
        p \in prefixes, es \in SeqsUpTo(E, MaxElements), rs \in SeqsUpTo(R, MaxRules)}

\* With or without the player.
PlayerOrNot == {<<>>, <<PlayerElement(Undefined)>>}

\* A key with a rule, a key named like an inherited property, a ghost
\* rect with an authored alpha of 3/2, and a door (alpha 1/2) to level "2"
\* with the same id.
MainElements ==
    {SpriteElement("key", "k1"),
     SpriteElement("key", "toString"),
     RectElement(Undefined, "t1", Num(3, 1), Undefined),
     RectElement("door", "t1", Num(1, 1), "2")}

MainRules ==
    {Rule("k1", "t1", "enable"),
     Rule("k1", "t1", "disable"),
     Rule("k1", "zz", "disable")}

\* Level "2": a wall and no player.
SecondLevels ==
    {Level(<<RectElement("wall", Undefined, Num(1, 0), Undefined)>>, <<>>)}

MainSettings ==
    <<[id |-> "reloadLevel", keys |-> <<"KeyR">>],
      [id |-> "up", keys |-> <<"ArrowUp">>]>>

\* The physical codes of the keyboard events: every code of inputs.json
\* and one it does not list.
Codes == DOMAIN inputsTable \cup {"KeyX"}

\* ------------------------------------------------------- specifications
\* The state after `new Phaser.Game(...)` constructed the scene.
InitWith(first, second, settings) ==
    /\ scenes \in {("1" :> a) @@ ("2" :> b) : a \in first, b \in second}
    /\ inputsTable = BuildInputsTable(<<>>, settings, 1)
    /\ levelIndex = "1"
    /\ status = "Pending"
    /\ description = NoDescription
    /\ player = NullPlayer
    /\ objs = <<>>
    /\ groups = EmptyGroups
    /\ objectTable = <<>>
    /\ interactionsTable = <<>>
    /\ loadedIndex = Undefined
    /\ doorIndex = Undefined
    /\ dispatched = <<>>
    /\ restartCause = "none"
    /\ threw = FALSE

Init == InitWith(Descriptions(PlayerOrNot, MainElements, MainRules),
                 SecondLevels, MainSettings)

Next ==
    \/ Preload
    \/ Create
    \/ \E h \in DOMAIN objs : DoorOverlap(h)
    \/ \E h \in DOMAIN objs : KeyOverlap(h)
    \/ \E touchingDown \in BOOLEAN : Update(touchingDown)
    \/ \E code \in Codes, keyDown \in BOOLEAN : InputHandler(code, keyDown)

Spec == Init /\ [][Next]_vars
\* Levels for the tables and the groups: every function tag on both
\* element types, ids shared by two elements, ids on a player and on an
\* element of an unknown type.
TablePrefixes ==
    {<<PlayerElement("p")>>,
     <<OtherElement("x"), PlayerElement(Undefined)>>}

TableElements ==
    {SpriteElement("key", "k1"),
     SpriteElement("wall", "a"),
     RectElement("key", "a", Num(1, 0), Undefined),
     RectElement("wall", Undefined, Num(1, 0), Undefined),
     RectElement("door", "d", Num(1, 0), "2")}

TableRules ==
    {Rule("k1", "d", "enable"),
     Rule("k1", "a", "disable")}

InitTables == InitWith(Descriptions(TablePrefixes, TableElements, TableRules),
                       SecondLevels, MainSettings)

SpecTables == InitTables /\ [][Next]_vars

\* Levels for the interpretation of the elements alone: one player element
\* or two, then walls and a ghost rect between two of three points, the
\* corners in every order.
LoadPrefixes ==
    {<<PlayerElement(Undefined)>>,
     <<PlayerElement(Undefined), PlayerElement(Undefined)>>}

Points == {<<50, 50>>, <<10, 30>>, <<10, 50>>}

LoadElements ==
    {At(RectElement("wall", Undefined, Num(1, 0), Undefined),
        Corners(a[1], a[2], b[1], b[2])) : a \in Points, b \in Points}
    \cup {At(RectElement(Undefined, Undefined, Num(1, 0), Undefined),
              Corners(50, 50, 10, 30))}

InitLoad == InitWith(Descriptions(LoadPrefixes, LoadElements, {}),
                     SecondLevels, MainSettings)

\* preload() and create() alone.
NextLoad == Preload \/ Create

SpecLoad == InitLoad /\ [][NextLoad]_vars

\* Levels for the locked door: two keys and three rules on the door, one
\* enabling it, one disabling it, one with an action create() and the
\* callback do not know.
KeysPrefixes == {<<PlayerElement(Undefined)>>}

KeysElements ==
    {SpriteElement("key", "k1"),
     SpriteElement("key", "k2"),
     RectElement("door", "d", Num(1, 0), "2")}

KeysRules ==
    {Rule("k1", "d", "enable"),
     Rule("k2", "d", "disable"),
     Rule("k2", "d", "toggle")}

InitKeys == InitWith(Descriptions(KeysPrefixes, KeysElements, KeysRules),
                     SecondLevels, MainSettings)

SpecKeys == InitKeys /\ [][Next]_vars

\* A level with a key and a locked door, and an inputs.json with a code
\* for every logical input, "down" among them.
InputPrefixes ==
    {<<PlayerElement(Undefined), SpriteElement("key", "k1"),
       RectElement("door", "d", Num(1, 0), "2")>>}

InputRules == {Rule("k1", "d", "enable")}

InputSettings ==
    <<[id |-> "quit", keys |-> <<"Escape">>],
      [id |-> "reloadLevel", keys |-> <<"KeyR">>],
      [id |-> "up", keys |-> <<"ArrowUp", "KeyW">>],
      [id |-> "right", keys |-> <<"ArrowRight">>],
      [id |-> "down", keys |-> <<"ArrowDown">>],
      [id |-> "left", keys |-> <<"ArrowLeft">>]>>

InitInput == InitWith(Descriptions(InputPrefixes, {}, InputRules),
                      SecondLevels, InputSettings)

SpecInput == InitInput /\ [][Next]_vars

\* Player.move() on every Player object: the four flags in their sixteen
\* combinations, the sprite whole or torn down, at rest or falling, in a
\* level whose create() has returned.
MoveLevel == Level(<<PlayerElement(Undefined)>>, <<>>)

MoveSettings ==
    <<[id |-> "up", keys |-> <<"ArrowUp">>],
      [id |-> "right", keys |-> <<"ArrowRight">>],
      [id |-> "down", keys |-> <<"ArrowDown">>],
      [id |-> "left", keys |-> <<"ArrowLeft">>]>>

Players ==
    {[isNull |-> FALSE,
      sprite |-> [exists |-> e, velocityX |-> <<0, 1>>, velocityY |-> vy],
      moveUp |-> u, moveRight |-> r, moveDown |-> d, moveLeft |-> l] :
        e \in BOOLEAN, vy \in {0, 40},
        u \in BOOLEAN, r \in BOOLEAN, d \in BOOLEAN, l \in BOOLEAN}

InitMove ==
    /\ scenes = ("1" :> MoveLevel)
    /\ inputsTable = BuildInputsTable(<<>>, MoveSettings, 1)
    /\ levelIndex = "1"
    /\ status = "Active"
    /\ description = MoveLevel
    /\ player \in Players
    /\ objs = <<>>
    /\ groups = EmptyGroups
    /\ objectTable = <<>>
    /\ interactionsTable = <<>>
    /\ loadedIndex = "1"
    /\ doorIndex = Undefined
    /\ dispatched = <<>>
    /\ restartCause = "none"
    /\ threw = FALSE

\* The ticks and the keyboard events.
NextMove ==
    \/ \E touchingDown \in BOOLEAN : Update(touchingDown)
    \/ \E code \in Codes, keyDown \in BOOLEAN : InputHandler(code, keyDown)

SpecMove == InitMove /\ [][NextMove]_vars

\* ----------------------------------------------------------------- claims
Rules == description.interactions
Els == description.elements

\* No key was picked up since create() returned.
Fresh == \A h \in DOMAIN dispatched : dispatched[h] = 0

\* The largest index of a non-empty set of indexes.
Last(S) == CHOOSE i \in S : \A j \in S : j <= i

\* C1: whatever its action, a rule whose target id is no key of ObjectTable
\* makes create() fail: the level is never Active with such a rule in its
\* description or registered in InteractionTable.
C1_MissingTargetFailsLoad ==
    status = "Active" =>
        /\ \A j \in 1..Len(Rules) : HasOwn(objectTable, Rules[j].target)
        /\ \A k \in DOMAIN interactionsTable :
               HasOwn(objectTable, interactionsTable[k].target)

\* C2: the overlap callback for a key whose id has no entry in
\* InteractionTable ends in an error and changes no object: the key is not
\* destroyed, no alpha, active flag or collision flag changes.
C2_UnknownKeyChangesNothing ==
    [][\A h \in DOMAIN objs :
          (KeyOverlap(h) /\ ~HasOwn(interactionsTable, objs[h].id))
              => (threw' /\ objs' = objs)]_vars

\* C3 as stated: with N elements carrying an id and M rules, ObjectTable
\* has N entries and InteractionTable has M entries.
C3_OneEntryPerElementAndRule ==
    status = "Active" =>
        /\ Cardinality(DOMAIN objectTable)
             = Cardinality({i \in 1..Len(Els) : Els[i].id # Undefined})
        /\ Cardinality(DOMAIN interactionsTable) = Len(Rules)

\* C3 as amended: ObjectTable has exactly one entry for every id carried by
\* a sprite or rect element, holding the last such element and its object;
\* InteractionTable has exactly one entry for every trigger, holding the
\* last rule with that trigger.
C3_OneEntryPerIdAndTrigger ==
    status = "Active" =>
        LET reg == {i \in 1..Len(Els) :
                       Els[i].id # Undefined /\ Els[i].type \in {"sprite", "rect"}}
        IN  /\ DOMAIN objectTable = {Els[i].id : i \in reg}
            /\ \A i \in reg :
                   LET l == Last({j \in reg : Els[j].id = Els[i].id})
                   IN  objectTable[Els[i].id] = [desc |-> Els[l], obj |-> l]
            /\ DOMAIN interactionsTable = {Rules[j].trigger : j \in 1..Len(Rules)}
            /\ \A j \in 1..Len(Rules) :
                   LET l == Last({k \in 1..Len(Rules) : Rules[k].trigger = Rules[j].trigger})
                   IN  interactionsTable[Rules[j].trigger]
                         = [target |-> Rules[l].target, action |-> Rules[l].action]

\* C3 witness: an Active level where two elements share an id, a player
\* carries an id and two rules share a trigger.
C3_Witness ==
    /\ status = "Active"
    /\ \E i, j \in 1..Len(Els) :
           i < j /\ Els[i].id # Undefined /\ Els[i].id = Els[j].id
    /\ \E i \in 1..Len(Els) : Els[i].type = "player" /\ Els[i].id # Undefined
    /\ \E i, j \in 1..Len(Rules) : i < j /\ Rules[i].trigger = Rules[j].trigger

\* C4: right after create(), every target of an "enable" rule is inactive,
\* has its body disabled and has half the alpha it was created with.
C4_EnableTargetsStartHalved ==
    (status = "Active" /\ Fresh) =>
        \A j \in 1..Len(Rules) :
            (Rules[j].action = "enable" /\ HasOwn(objectTable, Rules[j].target)) =>
                LET t == objs[objectTable[Rules[j].target].obj]
                IN  /\ ~t.active
                    /\ ~t.bodyEnable
                    /\ t.alpha = Half(t.created)

\* C5: picking up a key whose rule is "enable" leaves the target with the
\* alpha it was created with, active, with its body enabled, and the key
\* gone.
C5_EnableRestoresCreatedAlpha ==
    [][\A h \in DOMAIN objs :
          (/\ KeyOverlap(h)
           /\ HasOwn(interactionsTable, objs[h].id)
           /\ interactionsTable[objs[h].id].action = "enable")
              => /\ HasOwn(objectTable, interactionsTable[objs[h].id].target)
                 /\ LET t == objectTable[interactionsTable[objs[h].id].target].obj
                    IN  /\ objs'[t].alpha = objs[t].created
                        /\ objs'[t].active
                        /\ objs'[t].bodyEnable
                 /\ ~objs'[h].exists]_vars

\* C6: within one activation the dispatch of a key happens at most once:
\* the first dispatch destroys the key, and a destroyed key is never
\* dispatched again.
C6_DispatchAtMostOnce ==
    status = "Active" =>
        \A h \in groups.keys :
            /\ dispatched[h] <= 1
            /\ dispatched[h] = 1 <=> ~objs[h].exists

\* C6 witness: a key was dispatched, its rule applied to an existing target.
C6_Witness ==
    /\ status = "Active"
    /\ \E h \in groups.keys :
           /\ dispatched[h] = 1
           /\ HasOwn(interactionsTable, objs[h].id)
           /\ HasOwn(objectTable, interactionsTable[objs[h].id].target)

C8_NothingSurvivesRestart ==
    (status = "Active" /\ restartCause # "none") =>
        LET st == CreateLevel(description, NullPlayer)
        IN  /\ ~st.threw
            /\ player.sprite.exists
            /\ objectTable = st.objectTable
            /\ interactionsTable = st.interactionsTable
            /\ groups = st.groups

\* The group the claim gives function tag f, for both element types.
GroupOfTag(f) == CASE f = "wall" -> "blocks"
                   [] f = "door" -> "doors"
                   [] f = "key" -> "keys"
                   [] OTHER -> "ghosts"

GroupNames == {"blocks", "doors", "ghosts", "keys"}

\* C9 as stated: every rect and sprite is in exactly the group of its
\* function tag, the same tags for both element types.
C9_GroupByTagAlone ==
    status = "Active" =>
        \A i \in 1..Len(Els) :
            Els[i].type \in {"sprite", "rect"} =>
                \A g \in GroupNames : i \in groups[g] <=> g = GroupOfTag(Els[i].function)

\* C9 as amended: a rect is in blocks for "wall", in doors for "door" and
\* in ghosts otherwise; a sprite is in keys for "key" and in ghosts
\* otherwise; each is in no other group, elements of other types are in
\* none, and this holds in every state of the level.
C9_GroupByTypeAndTag ==
    status = "Active" =>
        \A g \in GroupNames :
            groups[g] =
                {i \in 1..Len(Els) :
                    \/ /\ Els[i].type = "rect"
                       /\ g = (IF Els[i].function \in {"wall", "door"}
                               THEN GroupOfTag(Els[i].function) ELSE "ghosts")
                    \/ /\ Els[i].type = "sprite"
                       /\ g = (IF Els[i].function = "key" THEN "keys" ELSE "ghosts")}

\* C9 witness: a level with a sprite tagged "wall" and a rect tagged "key"
\* in ghosts, after a key pickup.
C9_Witness ==
    /\ status = "Active"
    /\ \E i \in groups.ghosts : Els[i].type = "sprite" /\ Els[i].function = "wall"
    /\ \E i \in groups.ghosts : Els[i].type = "rect" /\ Els[i].function = "key"
    /\ \E h \in groups.keys : ~objs[h].exists

\* C10: in every state of a level every ghost has its body disabled.
C10_GhostsNeverCollide ==
    status = "Active" => \A h \in groups.ghosts : ~objs[h].bodyEnable

\* C11 as stated: a description with more than one player element makes
\* create() fail, so the level is never Active with two player elements.
C11_TwoPlayersNeverActive ==
    status = "Active" =>
        Cardinality({i \in 1..Len(Els) : Els[i].type = "player"}) <= 1

\* The rule the callback looks up for key k names object g as its target,
\* with the given action.
RuleOfKey(k, g, action) ==
    /\ HasOwn(interactionsTable, objs[k].id)
    /\ interactionsTable[objs[k].id].action = action
    /\ HasOwn(objectTable, interactionsTable[objs[k].id].target)
    /\ objectTable[interactionsTable[objs[k].id].target].obj = g

\* The logical input of a code is one of the four movements.
MovementCode(code) ==
    /\ code \in DOMAIN inputsTable
    /\ inputsTable[code] \in {"up", "right", "down", "left"}

\* C12: a key pickup changes at most the alpha, the active flag and the
\* collision flag of the target object of the key's rule, and the existence
\* of the key; the tables, the groups and every other field and object are
\* as before.  With an action other than "enable" and "disable" only the
\* key's existence changes.  Ticks and movement input change no table, no
\* group and no object.
C12_PickupFrame ==
    [][/\ \A k \in DOMAIN objs :
            KeyOverlap(k) =>
                /\ UNCHANGED <<objectTable, interactionsTable, groups>>
                /\ DOMAIN objs' = DOMAIN objs
                /\ \A g \in DOMAIN objs :
                     LET target == \/ RuleOfKey(k, g, "enable")
                                   \/ RuleOfKey(k, g, "disable")
                     IN  /\ [objs'[g] EXCEPT !.alpha = objs[g].alpha,
                                             !.active = objs[g].active,
                                             !.bodyEnable = objs[g].bodyEnable,
                                             !.exists = objs[g].exists] = objs[g]
                         /\ g # k => objs'[g].exists = objs[g].exists
                         /\ ~target => /\ objs'[g].alpha = objs[g].alpha
                                       /\ objs'[g].active = objs[g].active
                                       /\ objs'[g].bodyEnable = objs[g].bodyEnable
       /\ (\/ \E touchingDown \in BOOLEAN : Update(touchingDown)
           \/ \E code \in Codes, keyDown \in BOOLEAN :
                  MovementCode(code) /\ InputHandler(code, keyDown))
            => UNCHANGED <<objs, groups, objectTable, interactionsTable>>]_vars

\* A key whose rule has the unknown action "toggle" was picked up, and the
\* door it names is as create() left it: locked, its alpha halved.
C12_Witness ==
    /\ status = "Active"
    /\ \E k \in groups.keys, g \in groups.doors :
           /\ ~objs[k].exists
           /\ RuleOfKey(k, g, "toggle")
           /\ objs[g].alpha = Half(objs[g].created)
           /\ ~objs[g].active
           /\ ~objs[g].bodyEnable

\* The net input on both axes is zero.
InputsCancel(p) == p.moveLeft = p.moveRight /\ p.moveUp = p.moveDown

\* direction is the zero vector.
IsZero(d) == d.x[1] = 0 /\ d.y[1] = 0 /\ d.x[2] # 0

\* The magnitude of direction is 1: (x^2 + y^2) / length^2 = 1.
IsUnit(d) == d.x[2] # 0 /\ d.x[1] * d.x[1] + d.y[1] * d.y[1] = d.x[2]

\* C13 as stated: for each of the sixteen combinations of the flags the
\* direction has magnitude 1 unless all four flags are false, and is the
\* zero vector then.
C13_UnitUnlessAllFlagsFalse ==
    ~player.isNull =>
        IF player.moveUp \/ player.moveRight \/ player.moveDown \/ player.moveLeft
        THEN IsUnit(Direction(player))
        ELSE IsZero(Direction(player))

\* C13, amended: for each of the sixteen combinations of the flags the
\* direction is the zero vector when the inputs cancel on both axes (no
\* flag set, or left with right and up with down), and has magnitude 1
\* otherwise; it is never longer than 1 and no component is NaN.
C13_UnitUnlessInputsCancel ==
    ~player.isNull =>
        LET d == Direction(player)
        IN  /\ d.x[2] # 0
            /\ d.y[2] # 0
            /\ d.x[1] * d.x[1] + d.y[1] * d.y[1] <= d.x[2]
            /\ IF InputsCancel(player) THEN IsZero(d) ELSE IsUnit(d)

\* After a jump, left and right are both held: the direction is zero and
\* the horizontal velocity is 0.
C13_Witness ==
    /\ status = "Active"
    /\ player.sprite.exists
    /\ player.moveLeft /\ player.moveRight /\ ~player.moveUp /\ ~player.moveDown
    /\ player.sprite.velocityY = 0 - jumpForce
    /\ player.sprite.velocityX = <<0, 1>>
    /\ IsZero(Direction(player))

\* direction.x * moveSpeed for the flags of p, as <<n, l>> = n / sqrt(l).
HorizontalVelocity(p) ==
    LET x == IF p.moveRight = p.moveLeft THEN 0
             ELSE IF p.moveRight THEN 1 ELSE 0 - 1
        y == IF p.moveUp = p.moveDown THEN 0 ELSE 1
    IN  <<x * moveSpeed, IF x = 0 /\ y = 0 THEN 1 ELSE x * x + y * y>>

\* C14: a tick on a player whose body is there sets the vertical velocity
\* to -jumpForce exactly when moveUp is set, moveDown is not, and the body
\* touches the ground; every other tick leaves the vertical velocity as it
\* was; every tick sets the horizontal velocity to direction.x * moveSpeed.
C14_JumpOnlyFromGround ==
    [][\A touchingDown \in BOOLEAN :
          (Update(touchingDown) /\ player.sprite.exists) =>
              /\ player'.sprite.velocityY =
                     IF player.moveUp /\ ~player.moveDown /\ touchingDown
                     THEN 0 - jumpForce
                     ELSE player.sprite.velocityY
              /\ player'.sprite.velocityX = HorizontalVelocity(player)]_vars

\* The player jumped from the ground while moving up and to the right.
C14_Witness ==
    /\ status = "Active"
    /\ player.sprite.exists
    /\ player.moveUp /\ player.moveRight /\ ~player.moveDown /\ ~player.moveLeft
    /\ player.sprite.velocityY = 0 - jumpForce
    /\ player.sprite.velocityX = <<moveSpeed, 2>>

\* C15: a tick on a player whose physics handle is torn down does nothing:
\* no error leaves update(), neither velocity is set, the player is as before.
C15_TornDownTickIsNoOp ==
    [][\A touchingDown \in BOOLEAN :
          (Update(touchingDown) /\ ~player.sprite.exists) =>
              /\ ~threw'
              /\ player' = player]_vars

\* Level "2" is Active after a door overlap; this.player is still the
\* player of the level before, its sprite destroyed by the restart, its
\* flags set for a jump to the right.
C15_Witness ==
    /\ status = "Active"
    /\ restartCause = "door"
    /\ loadedIndex = "2"
    /\ ~player.isNull
    /\ ~player.sprite.exists
    /\ player.moveUp /\ player.moveRight
    /\ ~threw

\* C16: moveDown is false in every reachable state, whatever key events
\* arrive and with a code of inputs.json mapped to "down".
C16_MoveDownStaysFalse == ~player.moveDown

\* Other flags were set by key events while a code is mapped to "down".
C16_Witness ==
    /\ status = "Active"
    /\ "ArrowDown" \in DOMAIN inputsTable
    /\ inputsTable["ArrowDown"] = "down"
    /\ player.moveUp /\ player.moveLeft /\ player.moveRight
    /\ ~player.moveDown

\* |a - b|
Distance(a, b) == IF a < b THEN b - a ELSE a - b

\* Element j has the corners of element i, swapped.
Swapped(i, j) ==
    /\ Els[j].type = "rect"
    /\ Els[j].coordinates =
           Corners(Els[i].coordinates.x2, Els[i].coordinates.y2,
                   Els[i].coordinates.x1, Els[i].coordinates.y1)

\* C17: the rectangle made for a rect element with corners (x1, y1) and
\* (x2, y2) has x and y the smaller of the two coordinates, w = |x1 - x2|
\* and h = |y1 - y2|, both at least 0; the element with the corners swapped
\* gets the same rectangle; a rect tagged "wall" is in blocks.
C17_RectNormalised ==
    status = "Active" =>
        \A i \in 1..Len(Els) :
            Els[i].type = "rect" =>
                LET c == Els[i].coordinates
                    r == objs[i].rect
                IN  /\ r.x <= c.x1 /\ r.x <= c.x2 /\ r.x \in {c.x1, c.x2}
                    /\ r.y <= c.y1 /\ r.y <= c.y2 /\ r.y \in {c.y1, c.y2}
                    /\ r.w = Distance(c.x1, c.x2) /\ r.w >= 0
                    /\ r.h = Distance(c.y1, c.y2) /\ r.h >= 0
                    /\ \A j \in 1..Len(Els) :
                           Swapped(i, j) => objs[j].rect = r
                    /\ Els[i].function = "wall" => i \in groups.blocks

\* The wall with corners (50, 50) and (10, 30) is the rectangle
\* {x: 10, y: 30, w: 40, h: 20} in blocks, and so is the wall with the
\* corners swapped.
C17_Witness ==
    /\ status = "Active"
    /\ \E i, j \in DOMAIN objs :
           /\ Els[i].function = "wall"
           /\ Els[i].coordinates = Corners(50, 50, 10, 30)
           /\ Swapped(i, j)
           /\ objs[i].rect = [x |-> 10, y |-> 30, w |-> 40, h |-> 20]
           /\ objs[j].rect = objs[i].rect
           /\ i \in groups.blocks

\* The index of the door overlapped last, '1' before any door overlap.
RecordedIndex == IF doorIndex = Undefined THEN "1" ELSE doorIndex

\* The code is mapped to reloadLevel.
ReloadCode(code) ==
    code \in DOMAIN inputsTable /\ inputsTable[code] = "reloadLevel"

\* C18: a key-down of a code mapped to reloadLevel restarts the level and
\* leaves levelIndex as it was, the index of the door overlapped last or
\* '1'; the level preloaded next is the one of that index.  A key-up of the
\* code restarts nothing and changes nothing.
C18_ReloadKeepsLevelIndex ==
    [][/\ \A code \in Codes :
            ReloadCode(code) =>
                /\ InputHandler(code, TRUE) =>
                       /\ status' = "Pending"
                       /\ restartCause' = "reload"
                       /\ levelIndex' = levelIndex
                       /\ levelIndex = RecordedIndex
                /\ InputHandler(code, FALSE) =>
                       UNCHANGED <<scenes, inputsTable, levelIndex, status,
                                   description, player, objs, groups,
                                   objectTable, interactionsTable, loadedIndex,
                                   doorIndex, dispatched, restartCause>>
       /\ (Preload /\ restartCause = "reload") => loadedIndex' = RecordedIndex]_vars

\* Level "2", entered through a door, was reloaded by the key and is
\* Active again.
C18_Witness ==
    /\ status = "Active"
    /\ restartCause = "reload"
    /\ doorIndex = "2"
    /\ levelIndex = "2"
    /\ loadedIndex = "2"

\* C19 as stated: the alpha of every rect is a number of [0, 1] in every
\* reachable state, whatever alpha the description gives it.
C19_RectAlphaInUnitInterval ==
    \A h \in DOMAIN objs :
        objs[h].kind = "rect" =>
            /\ IsNumber(objs[h].alpha)
            /\ ~Less(objs[h].alpha, Num(0, 0))
            /\ ~Less(Num(1, 0), objs[h].alpha)

\* Object h is the target create() locked for a rule with action "enable".
IsEnableTarget(h) ==
    \E j \in 1..Len(Rules) :
        /\ Rules[j].action = "enable"
        /\ HasOwn(objectTable, Rules[j].target)
        /\ objectTable[Rules[j].target].obj = h

\* A key whose rule names h with the action was picked up.
PickedWith(h, action) ==
    \E k \in groups.keys : ~objs[k].exists /\ RuleOfKey(k, h, action)

\* C20: a door that is the target of an "enable" rule causes no level
\* transition before a key whose rule names it with "enable" was picked up;
\* only such a pickup unlocks it; the pickup of a key whose rule names it
\* with "disable" leaves it locked; a locked door causes no transition.
C20_LockedDoorStaysLocked ==
    [][\A h \in DOMAIN objs :
          (h \in groups.doors /\ IsEnableTarget(h)) =>
              /\ DoorOverlap(h) => (PickedWith(h, "enable") /\ objs[h].bodyEnable)
              /\ \A k \in DOMAIN objs :
                     (KeyOverlap(k) /\ RuleOfKey(k, h, "disable"))
                         => ~objs'[h].bodyEnable
              /\ (/\ status = "Active"
                  /\ status' = "Active"
                  /\ ~objs[h].bodyEnable
                  /\ objs'[h].bodyEnable)
                     => \E k \in DOMAIN objs :
                            KeyOverlap(k) /\ RuleOfKey(k, h, "enable")]_vars

\* The door was unlocked by the key of an "enable" rule and locked again
\* by the key of a "disable" rule.
C20_Witness ==
    /\ status = "Active"
    /\ \E h \in groups.doors :
           /\ IsEnableTarget(h)
           /\ PickedWith(h, "enable")
           /\ PickedWith(h, "disable")
           /\ ~objs[h].bodyEnable
           /\ ~objs[h].active
====
